---- MODULE Spec2Model ----
(***************************************************************************)
(* Verification model of the FitScore pattern-scoring engine               *)
(* (agents/fitscore/src/optimized_fitscore.py).                            *)
(*                                                                         *)
(* Numbers.  The code computes in binary floating point with decimal       *)
(* literals.  The model computes in exact decimal fixed point:             *)
(*   - category scores and confidence before rounding: hundredths          *)
(*     (9.5 is 950, 5.25 is 525);                                          *)
(*   - weights: hundredths (0.35 is 35);                                   *)
(*   - the weighted overall before rounding: ten-thousandths;              *)
(*   - every number stored in an EliteScore: tenths (8.7 is 87), which is  *)
(*     what round(x, 1) leaves.                                            *)
(*                                                                         *)
(* Text.  A candidate text is a sequence of lines taken from a small       *)
(* vocabulary of resume lines.  What each regular expression of the code   *)
(* finds in each line is tabulated in LineMatches; re.findall over the     *)
(* text is the concatenation of the per-line results, in text order.       *)
(***************************************************************************)
EXTENDS Integers, Sequences, FiniteSets, TLC

(***************************************************************************)
(* Bounds of the model.                                                    *)
(***************************************************************************)
MaxLines == 3

(***************************************************************************)
(* Small helpers.                                                          *)
(***************************************************************************)
Min(a, b) == IF a <= b THEN a ELSE b

Max(a, b) == IF a >= b THEN a ELSE b

Abs(a) == IF a >= 0 THEN a ELSE 0 - a

Range(s) == {s[i] : i \in DOMAIN s}

\* s[:n] of Python
Take(s, n) == SubSeq(s, 1, Min(n, Len(s)))

RECURSIVE SeqMax(_)
\* max([...]) of Python over a non-empty sequence of numbers
SeqMax(s) ==
    IF Len(s) = 1 THEN s[1] ELSE Max(s[1], SeqMax(Tail(s)))

RECURSIVE SetToSeq(_)
\* list(set(...)): the elements of a set in one fixed order.  Which order
\* depends on the string hashing of the process; it is left unspecified
\* here, and no property below depends on it.
SetToSeq(S) ==
    IF S = {} THEN <<>>
    ELSE LET x == CHOOSE y \in S : TRUE IN <<x>> \o SetToSeq(S \ {x})

\* round(x, 1) on an exact decimal: x is given in units of 1/(10*unit),
\* the result is in tenths; an exact tie goes to the even neighbour.
RoundHalfEven(x, unit) ==
    LET q == x \div unit
        r == x % unit
    IN  IF 2 * r > unit \/ (2 * r = unit /\ q % 2 = 1) THEN q + 1 ELSE q

(***************************************************************************)
(* The vocabulary of resume lines and their rendering.                     *)
(*   stanford  "Stanford University, B.S. Computer Science."               *)
(*   degree    "Bachelor degree."                                          *)
(*   google    "Google, Software Engineer, 10 years of experience."        *)
(*   years10   "10 years of experience."                                   *)
(*   engineer  "Software engineer."                                        *)
(*   skills    "Skills: Python, Kubernetes, system design."                *)
(*   lead      "Architecture, mentoring."                                  *)
(*   patent    "Patent holder, published research."                        *)
(*   award     "Award."                                                    *)
(*   pad       2000 characters of filler that no pattern matches           *)
(* Every line but pad is padded with blanks to 60 characters.              *)
(* Further lines, used where the detectors are exercised on their own:     *)
(*   washington    "University of Washington."                             *)
(*   goldman       "Goldman Sachs."                                        *)
(*   years7        "7 years of experience."                                *)
(*   years3        "3 years of experience."                                *)
(*   python_lower  "python scripting."                                     *)
(*   built         "Built and designed tools."                             *)
(*   techlead      "Tech Lead."                                            *)
(*   skills_full   "Python, Java, Go, microservices, system design,        *)
(*                  mentoring."                                            *)
(* and the five characters "_data", not padded.                            *)
(***************************************************************************)
Lines ==
    {"stanford", "degree", "google", "years10", "engineer",
     "skills", "lead", "patent", "award", "pad"}

\* len() of a rendered line, and of the role identifiers
Width(atom) ==
    CASE atom = "pad" -> 2000
      [] atom = "software_engineer" -> 17
      [] atom = "product_manager" -> 15
      [] atom = "data_scientist" -> 14
      [] atom = "qa" -> 2
      [] atom = "scientist" -> 9
      [] atom = "_data" -> 5
      [] atom = "_" -> 1
      [] atom = "Error extracting PDF text: " -> 27
      [] atom = "Failed to open stream" -> 21
      [] atom = "cannot open broken document" -> 27
      [] atom = "page_header" -> 16
      [] OTHER -> 60

RECURSIVE TextLen(_)
\* len(candidate_text)
TextLen(text) ==
    IF text = <<>> THEN 0 ELSE Width(Head(text)) + TextLen(Tail(text))

RECURSIVE SeqsUpTo(_, _)
SeqsUpTo(S, n) ==
    IF n = 0 THEN {<<>>}
    ELSE LET shorter == SeqsUpTo(S, n - 1)
         IN  shorter \cup {Append(s, x) : s \in shorter, x \in S}

\* the candidate texts of the model
Texts == SeqsUpTo(Lines, MaxLines)

\* the role identifiers of the model: the three known roles and a role
\* string the engine does not know
KnownRoles == {"software_engineer", "product_manager", "data_scientist"}

Roles == KnownRoles \cup {"qa"}

(***************************************************************************)
(* EliteTalentDetector: pattern tables.                                    *)
(***************************************************************************)
UniversityTiers ==
    <<"tier_1_us", "tier_1_cs", "tier_1_international", "tier_2", "tier_3">>

UniversityScore(tier) ==
    CASE tier = "tier_1_us" -> 950
      [] tier = "tier_1_cs" -> 920
      [] tier = "tier_1_international" -> 900
      [] tier = "tier_2" -> 780
      [] tier = "tier_3" -> 650

CompanyTiers ==
    <<"faang_plus", "elite_unicorns", "top_startups", "consulting_elite",
      "finance_elite">>

CompanyScore(tier) ==
    CASE tier = "faang_plus" -> 950
      [] tier = "elite_unicorns" -> 920
      [] tier = "top_startups" -> 870
      [] tier = "consulting_elite" -> 850
      [] tier = "finance_elite" -> 830

AchievementLevels == <<"exceptional", "strong", "moderate">>

\* data["score"] * data["weight"] of ACHIEVEMENT_SIGNALS, in hundredths:
\* 9.0 * 1.0, 7.5 * 0.7, 6.0 * 0.4
AchievementWeighted(level) ==
    CASE level = "exceptional" -> 900
      [] level = "strong" -> 525
      [] level = "moderate" -> 240

LeadershipLevels ==
    <<"executive", "senior_leadership", "team_leadership", "management">>

\* data["score"] * data["weight"] of LEADERSHIP_SIGNALS, in hundredths:
\* 9.0 * 1.0, 8.0 * 0.8, 6.5 * 0.6, 6.0 * 0.5
LeadershipWeighted(level) ==
    CASE level = "executive" -> 900
      [] level = "senior_leadership" -> 640
      [] level = "team_leadership" -> 390
      [] level = "management" -> 300

\* What pattern.findall(line) returns for each line of the vocabulary.
\* Pattern names: edu_<tier>, company_<tier>, achievement_<level> and
\* leadership_<level> as in compiled_patterns; <role>.<bucket> for TECHNICAL_SKILLS; "years",
\* "degree_keyword" and "role_keyword" for the three inline patterns.
LineMatches(pattern, line) ==
    CASE pattern = "edu_tier_1_us" /\ line = "stanford" -> <<"Stanford">>
      [] pattern = "degree_keyword" /\ line = "degree" -> <<"Bachelor">>
      [] pattern = "company_faang_plus" /\ line = "google" -> <<"Google">>
      [] pattern = "years" /\ line \in {"google", "years10"} -> <<10>>
      [] pattern = "role_keyword" /\ line \in {"google", "engineer"} ->
            <<"engineer">>
      [] pattern = "software_engineer.core" /\ line = "skills" ->
            <<"Python", "Kubernetes">>
      [] pattern = "software_engineer.advanced" /\ line = "skills" ->
            <<"system design">>
      [] pattern = "software_engineer.leadership" /\ line = "lead" ->
            <<"Architecture", "mentoring">>
      [] pattern = "data_scientist.core" /\ line = "skills" -> <<"Python">>
      [] pattern = "achievement_exceptional" /\ line = "patent" ->
            <<"Patent", "published">>
      [] pattern = "achievement_strong" /\ line = "award" -> <<"Award">>
      [] pattern = "edu_tier_1_cs" /\ line = "washington" ->
            <<"University of Washington">>
      [] pattern = "edu_tier_3" /\ line = "washington" -> <<"Washington">>
      [] pattern = "company_finance_elite" /\ line = "goldman" ->
            <<"Goldman Sachs">>
      [] pattern = "years" /\ line = "years7" -> <<7>>
      [] pattern = "years" /\ line = "years3" -> <<3>>
      [] pattern = "software_engineer.core" /\ line = "python_lower" ->
            <<"python">>
      [] pattern = "data_scientist.core" /\ line = "python_lower" ->
            <<"python">>
      [] pattern = "achievement_moderate" /\ line = "built" ->
            <<"Built", "designed">>
      [] pattern = "leadership_team_leadership" /\ line = "techlead" ->
            <<"Tech Lead">>
      [] pattern = "leadership_management" /\ line = "techlead" -> <<"Lead">>
      [] pattern = "software_engineer.core" /\ line = "skills_full" ->
            <<"Python", "Java", "Go">>
      [] pattern = "software_engineer.advanced" /\ line = "skills_full" ->
            <<"microservices", "system design">>
      [] pattern = "software_engineer.leadership" /\ line = "skills_full" ->
            <<"mentoring">>
      [] pattern = "data_scientist.core" /\ line = "skills_full" ->
            <<"Python">>
      [] OTHER -> <<>>

RECURSIVE Findall(_, _)
\* re.findall(pattern, text): the matches of all lines, in text order
Findall(pattern, text) ==
    IF text = <<>> THEN <<>>
    ELSE LineMatches(pattern, Head(text)) \o Findall(pattern, Tail(text))

\* re.search(pattern, text) is not None
Search(pattern, text) == Findall(pattern, text) # <<>>

(***************************************************************************)
(* EliteTalentDetector: the detection functions.  Each returns the pair    *)
(* (score, matched literals) as a record [score, details].                 *)
(***************************************************************************)
RECURSIVE EducationTierLoop(_, _, _, _)
\* the for loop of detect_education_signals over ELITE_UNIVERSITIES
EducationTierLoop(tiers, text, max_score, detected_schools) ==
    IF tiers = <<>> THEN [score |-> max_score, details |-> detected_schools]
    ELSE LET matches == Findall("edu_" \o Head(tiers), text)
         IN  IF matches # <<>>
             THEN EducationTierLoop(Tail(tiers), text,
                      Max(max_score, UniversityScore(Head(tiers))),
                      detected_schools \o matches)
             ELSE EducationTierLoop(Tail(tiers), text, max_score,
                      detected_schools)

\* a detector that takes any text to hold a degree
detect_education_signals_default(text) ==
    LET tiered == EducationTierLoop(UniversityTiers, text, 0, <<>>)
    IN  IF tiered.details = <<>>
        THEN [score |-> 500, details |-> <<"General degree">>]
        ELSE tiered

\* a detector that adds up the scores of the tiers that match
detect_education_signals_sum(text) ==
    LET tiered == EducationTierLoop(UniversityTiers, text, 0, <<>>)
        hit(tier) == IF Search("edu_" \o tier, text)
                     THEN UniversityScore(tier) ELSE 0
    IN  IF tiered.details = <<>> /\ Search("degree_keyword", text)
        THEN [score |-> 500, details |-> <<"General degree">>]
        ELSE [score |-> hit("tier_1_us") + hit("tier_1_cs")
                          + hit("tier_1_international") + hit("tier_2")
                          + hit("tier_3"),
              details |-> tiered.details]

detect_education_signals(text) ==
    LET tiered == EducationTierLoop(UniversityTiers, text, 0, <<>>)
    IN  IF tiered.details = <<>> /\ Search("degree_keyword", text)
        THEN [score |-> 500, details |-> <<"General degree">>]
        ELSE tiered

RECURSIVE CompanyTierLoop(_, _, _, _)
\* the for loop of detect_experience_signals over ELITE_COMPANIES
CompanyTierLoop(tiers, text, max_score, detected_companies) ==
    IF tiers = <<>>
    THEN [score |-> max_score, details |-> detected_companies]
    ELSE LET matches == Findall("company_" \o Head(tiers), text)
         IN  IF matches # <<>>
             THEN CompanyTierLoop(Tail(tiers), text,
                      Max(max_score, CompanyScore(Head(tiers))),
                      detected_companies \o matches)
             ELSE CompanyTierLoop(Tail(tiers), text, max_score,
                      detected_companies)

\* no bonus for the years of experience
YearsBonus_none(text) == 0

\* the bonus of the first years phrase instead of the largest
YearsBonus_first(text) ==
    LET years_pattern == Findall("years", text)
    IN  IF years_pattern = <<>> THEN 0
        ELSE IF years_pattern[1] >= 10 THEN 100
        ELSE IF years_pattern[1] >= 5 THEN 50
        ELSE 0

\* the years-of-experience bonus added to max_score
YearsBonus(text) ==
    LET years_pattern == Findall("years", text)
    IN  IF years_pattern = <<>> THEN 0
        ELSE LET years == SeqMax(years_pattern)
             IN  IF years >= 10 THEN 100
                 ELSE IF years >= 5 THEN 50
                 ELSE 0

\* a detector whose floor does not ask for a generic role keyword
detect_experience_signals_floor_always(text) ==
    LET tiered == CompanyTierLoop(CompanyTiers, text, 0, <<>>)
        with_bonus == tiered.score + YearsBonus(text)
    IN  IF tiered.details = <<>>
        THEN [score |-> Min(Max(with_bonus, 500), 1000),
              details |-> <<"General experience">>]
        ELSE [score |-> Min(with_bonus, 1000), details |-> tiered.details]

detect_experience_signals(text) ==
    LET tiered == CompanyTierLoop(CompanyTiers, text, 0, <<>>)
        with_bonus == tiered.score + YearsBonus(text)
    IN  IF tiered.details = <<>> /\ Search("role_keyword", text)
        THEN [score |-> Min(Max(with_bonus, 500), 1000),
              details |-> <<"General experience">>]
        ELSE [score |-> Min(with_bonus, 1000), details |-> tiered.details]

RECURSIVE AchievementLevelLoop(_, _, _, _)
\* the for loop of detect_achievement_signals over ACHIEVEMENT_SIGNALS
AchievementLevelLoop(levels, text, total_score, detected_achievements) ==
    IF levels = <<>>
    THEN [score |-> Min(total_score, 1000),
          details |-> detected_achievements]
    ELSE LET matches == Findall("achievement_" \o Head(levels), text)
         IN  IF matches # <<>>
             THEN AchievementLevelLoop(Tail(levels), text,
                      total_score
                        + AchievementWeighted(Head(levels))
                            * Min(Len(matches), 3),
                      detected_achievements \o matches)
             ELSE AchievementLevelLoop(Tail(levels), text, total_score,
                      detected_achievements)

\* a detector that counts every mention, however many
detect_achievement_signals_uncapped(text) ==
    LET capped == AchievementLevelLoop(AchievementLevels, text, 0, <<>>)
        part(level) == AchievementWeighted(level)
                         * Len(Findall("achievement_" \o level, text))
    IN  [score |-> Min(part("exceptional") + part("strong")
                         + part("moderate"), 1000),
         details |-> capped.details]

detect_achievement_signals(text) ==
    AchievementLevelLoop(AchievementLevels, text, 0, <<>>)

RECURSIVE LeadershipLevelLoop(_, _, _, _)
\* the for loop of detect_leadership_signals over LEADERSHIP_SIGNALS
LeadershipLevelLoop(levels, text, max_score, detected_leadership) ==
    IF levels = <<>>
    THEN [score |-> max_score, details |-> detected_leadership]
    ELSE LET matches == Findall("leadership_" \o Head(levels), text)
         IN  IF matches # <<>>
             THEN LeadershipLevelLoop(Tail(levels), text,
                      Max(max_score, LeadershipWeighted(Head(levels))),
                      detected_leadership \o matches)
             ELSE LeadershipLevelLoop(Tail(levels), text, max_score,
                      detected_leadership)

detect_leadership_signals(text) ==
    LeadershipLevelLoop(LeadershipLevels, text, 0, <<>>)

\* one bucket of detect_skills_match: min(len(set(matches)) * unit, cap),
\* nothing when the bucket has no match
SkillBucketScore(matches, unit, cap) ==
    IF matches = <<>> THEN 0
    ELSE Min(Cardinality(Range(matches)) * unit, cap)

detect_skills_match(text, role) ==
    LET r == IF role \in KnownRoles THEN role ELSE "software_engineer"
        core_matches == Findall(r \o ".core", text)
        advanced_matches == Findall(r \o ".advanced", text)
        leadership_matches == Findall(r \o ".leadership", text)
        total_score == SkillBucketScore(core_matches, 150, 400)
                         + SkillBucketScore(advanced_matches, 200, 350)
                         + SkillBucketScore(leadership_matches, 100, 250)
    IN  [score |-> Min(total_score, 1000),
         details |-> SetToSeq(Range(core_matches \o advanced_matches
                                      \o leadership_matches))]

\* benchmarks whose fallback is the product manager profile
role_benchmarks_other_fallback(role) ==
    CASE role = "software_engineer" ->
            [education_weight |-> 15, experience_weight |-> 35,
             skills_weight |-> 25, achievements_weight |-> 25,
             hire_threshold |-> 750, elite_threshold |-> 850]
      [] role = "data_scientist" ->
            [education_weight |-> 20, experience_weight |-> 30,
             skills_weight |-> 35, achievements_weight |-> 15,
             hire_threshold |-> 720, elite_threshold |-> 820]
      [] OTHER ->
            [education_weight |-> 10, experience_weight |-> 40,
             skills_weight |-> 30, achievements_weight |-> 20,
             hire_threshold |-> 700, elite_threshold |-> 800]

(***************************************************************************)
(* OptimizedFitScore: role benchmarks and the fast evaluation.             *)
(***************************************************************************)
role_benchmarks(role) ==
    CASE role = "product_manager" ->
            [education_weight |-> 10, experience_weight |-> 40,
             skills_weight |-> 30, achievements_weight |-> 20,
             hire_threshold |-> 700, elite_threshold |-> 800]
      [] role = "data_scientist" ->
            [education_weight |-> 20, experience_weight |-> 30,
             skills_weight |-> 35, achievements_weight |-> 15,
             hire_threshold |-> 720, elite_threshold |-> 820]
      [] OTHER ->
            \* "software_engineer", and the fallback of .get(role, ...)
            [education_weight |-> 15, experience_weight |-> 35,
             skills_weight |-> 25, achievements_weight |-> 25,
             hire_threshold |-> 750, elite_threshold |-> 850]

\* the weighted sum with the achievements term left out
WeightedOverall_without_achievements(benchmarks, education_score, experience_score, skills_score, achievements_score) ==
    education_score * benchmarks.education_weight
      + experience_score * benchmarks.experience_weight
      + skills_score * benchmarks.skills_weight

\* overall_score of evaluate_candidate_fast before rounding, in
\* ten-thousandths
WeightedOverall(benchmarks, education_score, experience_score, skills_score, achievements_score) ==
    education_score * benchmarks.education_weight
      + experience_score * benchmarks.experience_weight
      + skills_score * benchmarks.skills_weight
      + achievements_score * benchmarks.achievements_weight

\* the ladder with > in place of >=
HireDecision_strict(overall_score, benchmarks) ==
    IF overall_score > benchmarks.elite_threshold * 100 THEN "HIRE"
    ELSE IF overall_score > benchmarks.hire_threshold * 100
         THEN "STRONG_MAYBE"
    ELSE IF overall_score > 60000 THEN "MAYBE"
    ELSE "NO_HIRE"

\* the threshold ladder of evaluate_candidate_fast; overall_score in
\* ten-thousandths, thresholds in hundredths
HireDecision(overall_score, benchmarks) ==
    IF overall_score >= benchmarks.elite_threshold * 100 THEN "HIRE"
    ELSE IF overall_score >= benchmarks.hire_threshold * 100
         THEN "STRONG_MAYBE"
    ELSE IF overall_score >= 60000 THEN "MAYBE"
    ELSE "NO_HIRE"

\* Weighted sums that are exact decimal ties (x.x5) but whose binary
\* floating-point value, as the code computes it from these operands, lies
\* on the other side of the tie than round-half-even: weight profile,
\* the four category scores (hundredths) and what round(overall_score, 1)
\* returns (tenths).
BinaryTies ==
    {<<"product_manager", 0, 0, 0, 525, 11>>,
     <<"product_manager", 0, 100, 0, 525, 15>>,
     <<"product_manager", 500, 500, 0, 525, 35>>,
     <<"product_manager", 500, 1000, 0, 525, 55>>,
     <<"software_engineer", 0, 100, 0, 0, 3>>,
     <<"software_engineer", 0, 100, 0, 1000, 29>>,
     <<"software_engineer", 500, 100, 700, 0, 29>>,
     <<"software_engineer", 500, 100, 700, 1000, 53>>}

\* round(overall_score, 1), in tenths
RoundOverall(role, education_score, experience_score, skills_score, achievements_score) ==
    LET profile == IF role \in KnownRoles THEN role ELSE "software_engineer"
        ties == {t \in BinaryTies :
                    /\ t[1] = profile
                    /\ t[2] = education_score
                    /\ t[3] = experience_score
                    /\ t[4] = skills_score
                    /\ t[5] = achievements_score}
    IN  IF ties # {} THEN (CHOOSE t \in ties : TRUE)[6]
        ELSE RoundHalfEven(
                 WeightedOverall(role_benchmarks(role), education_score,
                     experience_score, skills_score, achievements_score),
                 1000)

RECURSIVE Join(_)
\* ', '.join(details)
Join(details) ==
    IF details = <<>> THEN ""
    ELSE IF Len(details) = 1 THEN details[1]
    ELSE details[1] \o ", " \o Join(Tail(details))

\* a strengths list that starts with the achievements
Strengths_achievements_first(education, experience, skills, achievements) ==
    (IF achievements.score >= 700
     THEN <<"Notable achievements: "
              \o Join(Take(achievements.details, 2))>>
     ELSE <<>>)
    \o (IF education.score >= 800
        THEN <<"Elite education: " \o Join(Take(education.details, 2))>>
        ELSE <<>>)
    \o (IF experience.score >= 800
        THEN <<"Top-tier experience: " \o Join(Take(experience.details, 2))>>
        ELSE <<>>)
    \o (IF skills.score >= 800
        THEN <<"Strong technical skills: " \o Join(Take(skills.details, 3))>>
        ELSE <<>>)

\* the strengths list of evaluate_candidate_fast before truncation
Strengths(education, experience, skills, achievements) ==
    (IF education.score >= 800
     THEN <<"Elite education: " \o Join(Take(education.details, 2))>>
     ELSE <<>>)
    \o (IF experience.score >= 800
        THEN <<"Top-tier experience: " \o Join(Take(experience.details, 2))>>
        ELSE <<>>)
    \o (IF skills.score >= 800
        THEN <<"Strong technical skills: " \o Join(Take(skills.details, 3))>>
        ELSE <<>>)
    \o (IF achievements.score >= 700
        THEN <<"Notable achievements: "
                 \o Join(Take(achievements.details, 2))>>
        ELSE <<>>)

\* the concerns list of evaluate_candidate_fast before truncation
Concerns(education, experience, skills, achievements) ==
    (IF education.score < 800 /\ education.score < 600
     THEN <<"Education background below expectations">> ELSE <<>>)
    \o (IF experience.score < 800 /\ experience.score < 600
        THEN <<"Limited relevant experience">> ELSE <<>>)
    \o (IF skills.score < 800 /\ skills.score < 600
        THEN <<"Missing key technical skills">> ELSE <<>>)
    \o (IF achievements.score < 700 /\ achievements.score < 400
        THEN <<"Limited demonstrated impact">> ELSE <<>>)

\* confidence before rounding, in hundredths:
\* min(95.0, 60.0 + len(text) / 100 + 5 * number of matched literals)
Confidence(text, education, experience, skills) ==
    Min(9500,
        6000 + TextLen(text)
          + 500 * Len(education.details \o experience.details
                        \o skills.details))

\* The EliteScore that evaluate_candidate_fast builds on a cache miss.
\* processing_time is the measured wall time of the call.
FastScore(text, role, processing_time) ==
    LET benchmarks == role_benchmarks(role)
        education == detect_education_signals(text)
        experience == detect_experience_signals(text)
        skills == detect_skills_match(text, role)
        achievements == detect_achievement_signals(text)
        overall_score == WeightedOverall(benchmarks, education.score,
                             experience.score, skills.score,
                             achievements.score)
    IN  [overall |-> RoundOverall(role, education.score, experience.score,
                         skills.score, achievements.score),
         education |-> RoundHalfEven(education.score, 10),
         experience |-> RoundHalfEven(experience.score, 10),
         skills |-> RoundHalfEven(skills.score, 10),
         achievements |-> RoundHalfEven(achievements.score, 10),
         confidence |->
             RoundHalfEven(
                 Confidence(text, education, experience, skills), 10),
         hire_decision |-> HireDecision(overall_score, benchmarks),
         strengths |->
             Take(Strengths(education, experience, skills, achievements), 3),
         concerns |->
             Take(Concerns(education, experience, skills, achievements), 2),
         processing_time |-> processing_time]

(***************************************************************************)
(* The result cache.                                                       *)
(***************************************************************************)
\* The characters of a rendered line or of a role identifier, as a
\* sequence of chunks <<name, number of characters>>.  A line or identifier
\* that holds an underscore is cut at it into the underscore and the words
\* around it ("w:" marks a word), so that two sequences of chunks are
\* equal exactly when the strings are.
Pieces(atom) ==
    CASE atom = "_data" -> <<<<"_", 1>>, <<"w:data", 4>>>>
      [] atom = "software_engineer" ->
            <<<<"w:software", 8>>, <<"_", 1>>, <<"w:engineer", 8>>>>
      [] atom = "product_manager" ->
            <<<<"w:product", 7>>, <<"_", 1>>, <<"w:manager", 7>>>>
      [] atom = "data_scientist" ->
            <<<<"w:data", 4>>, <<"_", 1>>, <<"w:scientist", 9>>>>
      [] atom = "scientist" -> <<<<"w:scientist", 9>>>>
      [] atom = "qa" -> <<<<"w:qa", 2>>>>
      [] OTHER -> <<<<atom, Width(atom)>>>>

RECURSIVE TextPieces(_)
\* the chunks of a text, line after line
TextPieces(text) ==
    IF text = <<>> THEN <<>>
    ELSE Pieces(Head(text)) \o TextPieces(Tail(text))

RECURSIVE TakeChars(_, _)
\* the first room characters of a sequence of chunks; the last chunk may
\* be kept in part
TakeChars(pieces, room) ==
    IF pieces = <<>> \/ room = 0 THEN <<>>
    ELSE LET w == Head(pieces)[2]
         IN  IF w <= room
             THEN <<Head(pieces)>> \o TakeChars(Tail(pieces), room - w)
             ELSE <<<<Head(pieces)[1], room>>>>

\* candidate_text[:room]
PrefixOf(text, room) == TakeChars(TextPieces(text), room)

\* the characters of a role identifier, in the same form
RoleChunks(role) == Pieces(role)

\* a key made of the whole text instead of its first 500 characters
_get_cache_key_full_text(text, role) ==
    PrefixOf(text, TextLen(text)) \o <<<<"_", 1>>>> \o RoleChunks(role)

\* f"{candidate_text[:500]}_{role}"; the md5 digest of this string is the
\* key, and two strings are taken to have the same digest only when equal
_get_cache_key(text, role) ==
    PrefixOf(text, 500) \o <<<<"_", 1>>>> \o RoleChunks(role)

(***************************************************************************)
(* The verification backend.  A response is either a failure of the call   *)
(* or a content: a sequence of response lines.                             *)
(*   prose           "The candidate looks reasonable."                     *)
(*   score_6_5       "Adjusted score: 6.5"                                 *)
(*   score_8_0       "Adjusted score: 8.0"                                 *)
(*   score_15        "Score: 15"                                           *)
(*   decision_maybe  "Decision: MAYBE"                                     *)
(*   confidence_70   "Confidence: 70"                                      *)
(*   confidence_150  "Confidence: 150"                                     *)
(*   strengths_3     "Strengths: [systems depth, impact, mentoring]"       *)
(*   concerns_1      "Concerns: [short tenure]"                            *)
(***************************************************************************)
\* what the capture group of each parsing pattern of _llm_verification
\* holds for each response line: <<>> when the line has no match
ResponseMatches(pattern, line) ==
    CASE pattern = "score" /\ line = "score_6_5" -> <<65>>
      [] pattern = "score" /\ line = "score_8_0" -> <<80>>
      [] pattern = "score" /\ line = "score_15" -> <<150>>
      [] pattern = "decision" /\ line = "decision_maybe" -> <<"MAYBE">>
      [] pattern = "confidence" /\ line = "confidence_70" -> <<700>>
      [] pattern = "confidence" /\ line = "confidence_150" -> <<1500>>
      [] pattern = "strengths" /\ line = "strengths_3" ->
            <<<<"systems depth", "impact", "mentoring">>>>
      [] pattern = "concerns" /\ line = "concerns_1" ->
            <<<<"short tenure">>>>
      [] OTHER -> <<>>

RECURSIVE SearchResponse(_, _)
\* re.search(pattern, content): the first match, <<>> when there is none
SearchResponse(pattern, content) ==
    IF content = <<>> THEN <<>>
    ELSE LET m == ResponseMatches(pattern, Head(content))
         IN  IF m # <<>> THEN m ELSE SearchResponse(pattern, Tail(content))

\* the responses of the model
Responses ==
    {[kind |-> "error", content |-> <<>>],
     [kind |-> "no_content", content |-> <<>>],
     [kind |-> "content", content |-> <<"prose">>],
     [kind |-> "content", content |-> <<"score_8_0">>],
     [kind |-> "content",
      content |-> <<"score_6_5", "decision_maybe", "confidence_70",
                    "strengths_3", "concerns_1">>],
     [kind |-> "content", content |-> <<"score_15", "confidence_150">>]}

\* a parser that resets confidence when the response does not give one
ParseResponse_reset(fast_result, content) ==
    LET score_match == SearchResponse("score", content)
        confidence_match == SearchResponse("confidence", content)
    IN  [fast_result EXCEPT
            !.overall =
                IF score_match # <<>> THEN score_match[1] ELSE @,
            !.confidence =
                IF confidence_match # <<>> THEN confidence_match[1] ELSE 0]

\* the body of the try block of _llm_verification once content is a string
ParseResponse(fast_result, content) ==
    LET score_match == SearchResponse("score", content)
        decision_match == SearchResponse("decision", content)
        confidence_match == SearchResponse("confidence", content)
        strengths_section == SearchResponse("strengths", content)
        concerns_section == SearchResponse("concerns", content)
    IN  [fast_result EXCEPT
            !.overall =
                IF score_match # <<>> THEN score_match[1] ELSE @,
            !.hire_decision =
                IF decision_match # <<>> THEN decision_match[1] ELSE @,
            !.confidence =
                IF confidence_match # <<>> THEN confidence_match[1] ELSE @,
            !.strengths =
                IF strengths_section # <<>>
                THEN Take(strengths_section[1], 2) ELSE @,
            !.concerns =
                IF concerns_section # <<>>
                THEN Take(concerns_section[1], 2) ELSE @]

\* _llm_verification without its except clause
_llm_verification_no_except(fast_result, mock, response) ==
    IF mock
    THEN [object |->
              [fast_result EXCEPT
                  !.strengths =
                      IF fast_result.overall >= 80
                      THEN Append(@, "Mock: Strong overall profile")
                      ELSE @,
                  !.concerns =
                      IF fast_result.overall <= 60
                      THEN Append(@, "Mock: Needs improvement in key areas")
                      ELSE @],
          contacted |-> FALSE, failed |-> FALSE, raised |-> FALSE]
    ELSE IF response.kind # "content"
    THEN [object |-> fast_result,
          contacted |-> TRUE, failed |-> TRUE, raised |-> TRUE]
    ELSE [object |-> ParseResponse(fast_result, response.content),
          contacted |-> TRUE, failed |-> FALSE, raised |-> FALSE]

\* _llm_verification whose mock notes leave the values 8.0 and 6.0 out
_llm_verification_mock_strict(fast_result, mock, response) ==
    IF mock
    THEN [object |->
              [fast_result EXCEPT
                  !.strengths =
                      IF fast_result.overall > 80
                      THEN Append(@, "Mock: Strong overall profile")
                      ELSE @,
                  !.concerns =
                      IF fast_result.overall < 60
                      THEN Append(@, "Mock: Needs improvement in key areas")
                      ELSE @],
          contacted |-> FALSE, failed |-> FALSE, raised |-> FALSE]
    ELSE IF response.kind # "content"
    THEN [object |-> fast_result,
          contacted |-> TRUE, failed |-> TRUE, raised |-> FALSE]
    ELSE [object |-> ParseResponse(fast_result, response.content),
          contacted |-> TRUE, failed |-> FALSE, raised |-> FALSE]

\* _llm_verification applied to the object fast_result: the object after
\* the call, whether the backend was called, whether that call failed and
\* whether an exception leaves the function
_llm_verification(fast_result, mock, response) ==
    IF mock
    THEN [object |->
              [fast_result EXCEPT
                  !.strengths =
                      IF fast_result.overall >= 80
                      THEN Append(@, "Mock: Strong overall profile")
                      ELSE @,
                  !.concerns =
                      IF fast_result.overall <= 60
                      THEN Append(@, "Mock: Needs improvement in key areas")
                      ELSE @],
          contacted |-> FALSE, failed |-> FALSE, raised |-> FALSE]
    ELSE IF response.kind # "content"
    THEN \* the client call raises, or content is None and re.search
         \* raises: the except clause logs and falls through
         [object |-> fast_result,
          contacted |-> TRUE, failed |-> TRUE, raised |-> FALSE]
    ELSE [object |-> ParseResponse(fast_result, response.content),
          contacted |-> TRUE, failed |-> FALSE, raised |-> FALSE]

\* the escalation test with the ends of the range left out
NeedsVerification_exclusive(fast_result) ==
    fast_result.confidence < 700
      \/ (65 < fast_result.overall /\ fast_result.overall < 80)

\* the escalation test of evaluate_with_llm_verification
NeedsVerification(fast_result) ==
    fast_result.confidence < 700
      \/ (65 <= fast_result.overall /\ fast_result.overall <= 80)

(***************************************************************************)
(* State.                                                                  *)
(***************************************************************************)
VARIABLES
    mock_mode,   \* OptimizedFitScore.mock_mode, fixed by __init__
    heap,        \* the EliteScore objects created so far; an object is
                 \* known by its index, and a reference is such an index
    cache,       \* OptimizedFitScore.cache: key -> reference
    calls,       \* number of calls made on the engine so far
    last,        \* what the last call on the engine saw and returned
    origin,      \* history, per object: the role and the text[:500] it
                 \* was computed for, and whether a backend response has
                 \* overwritten its overall
    fast_seen,   \* history: (text[:500], role) -> the scores returned by
                 \* the fast calls made since the last verification call
    probe,       \* one evaluation on a fresh engine: the request and,
                 \* once evaluated, the result
    candidates,  \* batch_evaluate: the (text, label) pairs of the batch
    batch_role,  \* batch_evaluate: the role of the batch
    worker,      \* batch_evaluate: per candidate, where its worker thread
                 \* is and the reference its future holds
    results,     \* batch_evaluate: <<>> until it returns, then the list
                 \* of references it returns, wrapped in a 1-tuple
    request,     \* /analyze: the upload and, once handled, the response
    detection    \* EliteTalentDetector alone: a text and a role and, once
                 \* the detectors have run, what each of them returned

engine_vars == <<mock_mode, heap, cache, calls, last, origin, fast_seen>>

batch_vars == <<candidates, batch_role, worker, results>>

analyze_vars == <<request>>

detect_vars == <<detection>>

vars ==
    <<mock_mode, heap, cache, calls, last, origin, fast_seen, probe,
      candidates, batch_role, worker, results, request, detection>>

(***************************************************************************)
(* Bounds and inputs of the engine session.                                *)
(***************************************************************************)
MaxCalls == 2

\* the texts submitted to the engine in a session
Corpus ==
    {<<>>,
     <<"google", "lead", "patent">>,
     <<"degree", "google", "skills", "patent">>,
     <<"stanford", "google", "skills", "patent">>,
     <<"stanford", "google", "patent">>,
     <<"pad">>,
     <<"pad", "google">>,
     <<"stanford", "google", "patent", "_data">>}

\* the roles requested in a session
SessionRoles == {"software_engineer", "data_scientist", "qa", "scientist"}

\* the (text, role) pairs a session submits: every text but the last for
\* the default role, one for another known role, two for roles that are
\* not known
Submissions ==
    ((Corpus \ {<<"stanford", "google", "patent", "_data">>})
         \X {"software_engineer"})
      \cup {<<<<"stanford", "google", "patent">>, "data_scientist">>,
            <<<<>>, "qa">>,
            <<<<"stanford", "google", "patent", "_data">>, "scientist">>}

\* the five scores of an EliteScore
Scores(score) ==
    <<score.education, score.experience, score.skills, score.achievements,
      score.overall>>

NoCall ==
    [op |-> "none", candidate_text |-> <<>>, role |-> "", hit |-> FALSE,
     ref |-> 0, result |-> <<>>, prior |-> <<>>, fast |-> <<>>,
     entered |-> FALSE, contacted |-> FALSE, failed |-> FALSE,
     raised |-> FALSE, response |-> [kind |-> "none", content |-> <<>>]]

NoProbe == [candidate_text |-> <<>>, role |-> "", result |-> <<>>]

NoResponse == [kind |-> "none", content |-> <<>>]

NoRequest ==
    [filename |-> "", document |-> [kind |-> "none"], role_type |-> "",
     status |-> 0, detail |-> "", resume_text |-> <<>>,
     fast_evaluation |-> <<>>]

NoDetection ==
    [candidate_text |-> <<>>, role |-> "", done |-> FALSE,
     education |-> <<>>, experience |-> <<>>, skills |-> <<>>,
     achievements |-> <<>>, leadership |-> <<>>]

NoBatch ==
    /\ candidates = <<>>
    /\ batch_role = ""
    /\ worker = <<>>
    /\ results = <<>>

(***************************************************************************)
(* The engine operations on the engine state.                              *)
(***************************************************************************)
\* evaluate_candidate_fast on the heap h and cache c; stamp is the elapsed
\* time this call measures.  Gives the heap and cache after the call, the
\* reference it returns and whether it was a cache hit.
evaluate_candidate_fast(h, c, text, role, stamp) ==
    LET cache_key == _get_cache_key(text, role)
    IN  IF cache_key \in DOMAIN c
        THEN [heap |-> [h EXCEPT ![c[cache_key]].processing_time = stamp],
              cache |-> c, ref |-> c[cache_key], hit |-> TRUE]
        ELSE [heap |-> Append(h, FastScore(text, role, stamp)),
              cache |-> (cache_key :> (Len(h) + 1)) @@ c,
              ref |-> Len(h) + 1, hit |-> FALSE]

\* evaluate_with_llm_verification on the heap h and cache c
evaluate_with_llm_verification(h, c, text, role, stamp, mock, response) ==
    LET f == evaluate_candidate_fast(h, c, text, role, stamp)
        fast_result == f.heap[f.ref]
    IN  IF NeedsVerification(fast_result)
        THEN LET v == _llm_verification(fast_result, mock, response)
             IN  [heap |-> [f.heap EXCEPT ![f.ref] = v.object],
                  cache |-> f.cache, ref |-> f.ref, hit |-> f.hit,
                  fast |-> fast_result, entered |-> TRUE,
                  contacted |-> v.contacted, failed |-> v.failed,
                  raised |-> v.raised]
        ELSE [heap |-> f.heap, cache |-> f.cache, ref |-> f.ref,
              hit |-> f.hit, fast |-> fast_result, entered |-> FALSE,
              contacted |-> FALSE, failed |-> FALSE, raised |-> FALSE]

(***************************************************************************)
(* Engine session: a caller makes up to MaxCalls calls, one after the      *)
(* other, on one engine.                                                   *)
(***************************************************************************)
Init ==
    /\ mock_mode \in BOOLEAN
    /\ heap = <<>>
    /\ cache = <<>>
    /\ calls = 0
    /\ last = NoCall
    /\ origin = <<>>
    /\ fast_seen = <<>>
    /\ probe = NoProbe
    /\ NoBatch
    /\ request = NoRequest
    /\ detection = NoDetection

\* a call of evaluate_candidate_fast
EvaluateFast ==
    /\ calls < MaxCalls
    /\ \E text \in Corpus, role \in SessionRoles :
      /\ <<text, role>> \in Submissions
      /\ \E f \in {evaluate_candidate_fast(heap, cache, text, role, calls + 1)} :
        LET fingerprint == <<PrefixOf(text, 500), role>>
        IN  /\ calls' = calls + 1
            /\ heap' = f.heap
            /\ cache' = f.cache
            /\ origin' = IF f.hit THEN origin
                         ELSE Append(origin,
                                  [role |-> role, adjusted |-> FALSE,
                                   prefix |-> PrefixOf(text, 500)])
            /\ last' = [NoCall EXCEPT
                           !.op = "fast", !.candidate_text = text,
                           !.role = role, !.hit = f.hit, !.ref = f.ref,
                           !.result = <<f.heap[f.ref]>>,
                           !.prior =
                               IF fingerprint \in DOMAIN fast_seen
                               THEN <<fast_seen[fingerprint]>> ELSE <<>>]
            /\ fast_seen' =
                   (fingerprint :> Scores(f.heap[f.ref])) @@ fast_seen
            /\ UNCHANGED <<mock_mode, probe>>
            /\ UNCHANGED batch_vars
            /\ UNCHANGED analyze_vars
            /\ UNCHANGED detect_vars

\* a call of evaluate_with_llm_verification; the backend, when there is
\* one, answers with any of the responses
EvaluateWithVerification ==
    /\ calls < MaxCalls
    /\ \E text \in Corpus, role \in SessionRoles,
       response \in (IF mock_mode THEN {NoResponse} ELSE Responses) :
      /\ <<text, role>> \in Submissions
      /\ \E e \in {evaluate_with_llm_verification(heap, cache, text, role,
                     calls + 1, mock_mode, response)} :
        LET overwritten ==
                /\ e.contacted
                /\ ~e.failed
                /\ SearchResponse("score", response.content) # <<>>
        IN  /\ calls' = calls + 1
            /\ heap' = e.heap
            /\ cache' = e.cache
            /\ origin' =
                   LET o == IF e.hit THEN origin
                            ELSE Append(origin,
                                     [role |-> role, adjusted |-> FALSE,
                                      prefix |-> PrefixOf(text, 500)])
                   IN  IF overwritten
                       THEN [o EXCEPT ![e.ref].adjusted = TRUE]
                       ELSE o
            /\ last' = [NoCall EXCEPT
                           !.op = "verify", !.candidate_text = text,
                           !.role = role, !.hit = e.hit, !.ref = e.ref,
                           !.result = <<e.heap[e.ref]>>,
                           !.fast = <<e.fast>>, !.entered = e.entered,
                           !.contacted = e.contacted, !.failed = e.failed,
                           !.raised = e.raised,
                           !.response =
                               IF e.contacted THEN response ELSE @]
            /\ fast_seen' = <<>>
            /\ UNCHANGED <<mock_mode, probe>>
            /\ UNCHANGED batch_vars
            /\ UNCHANGED analyze_vars
            /\ UNCHANGED detect_vars

Next == EvaluateFast \/ EvaluateWithVerification

Spec == Init /\ [][Next]_vars

(***************************************************************************)
(* One fast evaluation of any text for any role on a fresh engine.         *)
(***************************************************************************)
\* the texts evaluated: every text of the vocabulary, and one that is
\* strong in all four categories
FastTexts ==
    Texts \cup {<<"stanford", "google", "skills_full", "patent">>}

InitFast ==
    /\ probe \in [candidate_text : FastTexts, role : Roles, result : {<<>>}]
    /\ mock_mode = TRUE
    /\ heap = <<>>
    /\ cache = <<>>
    /\ calls = 0
    /\ last = NoCall
    /\ origin = <<>>
    /\ fast_seen = <<>>
    /\ NoBatch
    /\ request = NoRequest
    /\ detection = NoDetection

\* evaluate_candidate_fast on an engine whose cache is empty
EvaluateFresh ==
    /\ probe.result = <<>>
    /\ probe' = [probe EXCEPT
                    !.result =
                        <<evaluate_candidate_fast(<<>>, <<>>,
                              probe.candidate_text, probe.role, 1).heap[1]>>]
    /\ UNCHANGED engine_vars
    /\ UNCHANGED batch_vars
    /\ UNCHANGED analyze_vars
    /\ UNCHANGED detect_vars

NextFast == EvaluateFresh

SpecFast == InitFast /\ [][NextFast]_vars

(***************************************************************************)
(* batch_evaluate on a fresh engine.  Every candidate is submitted to the  *)
(* thread pool (10 workers, more than the batches of the model), and each  *)
(* worker runs evaluate_candidate_fast on the shared cache.  A worker is   *)
(* pre-empted only between its cache check and its cache write: the        *)
(* detectors in between read no shared state.                              *)
(***************************************************************************)
MaxBatch == 2

\* a candidate_text that is not a string (None): slicing it in
\* _get_cache_key raises TypeError
NotAText == <<"None">>

RECURSIVE Batches(_)
\* the candidate lists of n pairs (text, label), the label being the
\* position in the batch
Batches(n) ==
    IF n = 0 THEN {<<>>}
    ELSE {Append(b, <<text, n>>) :
              b \in Batches(n - 1), text \in Corpus \cup {NotAText}}

InitBatch ==
    /\ candidates \in UNION {Batches(n) : n \in 0..MaxBatch}
    /\ batch_role \in SessionRoles
    /\ worker = [i \in DOMAIN candidates |-> [pc |-> "submitted", ref |-> 0]]
    /\ results = <<>>
    /\ mock_mode = TRUE
    /\ heap = <<>>
    /\ cache = <<>>
    /\ calls = 0
    /\ last = NoCall
    /\ origin = <<>>
    /\ fast_seen = <<>>
    /\ probe = NoProbe
    /\ request = NoRequest
    /\ detection = NoDetection

\* worker i runs evaluate_candidate_fast up to the cache check: on a hit
\* it stamps the cached object and returns it, on a miss it goes on to
\* the detectors
WorkerCheck(i) ==
    LET cache_key == _get_cache_key(candidates[i][1], batch_role)
    IN  /\ worker[i].pc = "submitted"
        /\ IF candidates[i][1] = NotAText
           THEN /\ heap' = heap
                /\ worker' = [worker EXCEPT ![i].pc = "raised"]
           ELSE IF cache_key \in DOMAIN cache
           THEN /\ heap' = [heap EXCEPT ![cache[cache_key]].processing_time = i]
                /\ worker' = [worker EXCEPT
                                 ![i] = [pc |-> "done",
                                         ref |-> cache[cache_key]]]
           ELSE /\ heap' = heap
                /\ worker' = [worker EXCEPT ![i].pc = "computing"]
        /\ UNCHANGED <<mock_mode, cache, calls, last, origin, fast_seen,
                       probe, candidates, batch_role, results, request,
                       detection>>

\* worker i builds its EliteScore, writes it to the cache and returns it
WorkerPut(i) ==
    LET cache_key == _get_cache_key(candidates[i][1], batch_role)
    IN  /\ worker[i].pc = "computing"
        /\ heap' = Append(heap, FastScore(candidates[i][1], batch_role, i))
        /\ cache' = (cache_key :> (Len(heap) + 1)) @@ cache
        /\ origin' = Append(origin,
                         [role |-> batch_role, adjusted |-> FALSE,
                          prefix |-> PrefixOf(candidates[i][1], 500)])
        /\ worker' = [worker EXCEPT
                         ![i] = [pc |-> "done", ref |-> Len(heap) + 1]]
        /\ UNCHANGED <<mock_mode, calls, last, fast_seen, probe,
                       candidates, batch_role, results, request,
                       detection>>

\* results = [future.result() for future in futures], and the return.
\* The exception of a worker leaves future.result() and batch_evaluate,
\* after the executor has waited for the other workers; nothing is
\* returned then.
BatchReturn ==
    /\ results = <<>>
    /\ last.op # "batch"
    /\ \A i \in DOMAIN worker : worker[i].pc \in {"done", "raised"}
    /\ IF \E i \in DOMAIN worker : worker[i].pc = "raised"
       THEN /\ results' = results
            /\ last' = [NoCall EXCEPT !.op = "batch", !.raised = TRUE]
       ELSE /\ results' = <<[i \in DOMAIN worker |-> worker[i].ref]>>
            /\ last' = last
    /\ UNCHANGED <<mock_mode, heap, cache, calls, origin, fast_seen,
                   probe, candidates, batch_role, worker, request,
                   detection>>

NextBatch ==
    \/ \E i \in DOMAIN worker : WorkerCheck(i)
    \/ \E i \in DOMAIN worker : WorkerPut(i)
    \/ BatchReturn

SpecBatch == InitBatch /\ [][NextBatch]_vars

(***************************************************************************)
(* The /analyze handler of the test application: one upload handled on the *)
(* application's engine.                                                   *)
(***************************************************************************)
\* the blanks str.strip() removes in front of a text that starts with atom
LeadingBlank(atom) == IF atom = "page_header" THEN 1 ELSE 0

\* the blanks str.strip() removes behind a text that ends with atom
TrailingBlank(atom) ==
    CASE atom = "stanford" -> 17
      [] atom = "degree" -> 44
      [] atom = "google" -> 10
      [] atom = "years10" -> 37
      [] atom = "engineer" -> 42
      [] atom = "skills" -> 18
      [] atom = "lead" -> 36
      [] atom = "patent" -> 26
      [] atom = "award" -> 54
      [] atom = "pad" -> 1
      [] atom = "page_header" -> 1
      [] atom = "Error extracting PDF text: " -> 1
      [] OTHER -> 0

\* len(resume_text.strip())
StrippedLen(text) ==
    IF text = <<>> THEN 0
    ELSE TextLen(text) - LeadingBlank(text[1]) - TrailingBlank(text[Len(text)])

\* what a page-by-page OCR that reads nothing returns for n pages:
\* "\n--- Page i ---\n" for each page
RECURSIVE PageHeaders(_)
PageHeaders(n) ==
    IF n = 0 THEN <<>> ELSE Append(PageHeaders(n - 1), "page_header")

\* the uploaded documents: a PDF with a text layer, a scanned PDF of blank
\* pages, and bytes that PyMuPDF cannot open (with the message it raises)
Documents ==
    {[kind |-> "text", text |-> t] :
         t \in {<<"award">>, <<"engineer">>, <<"google">>,
                <<"stanford", "google", "skills", "patent">>,
                <<"pad", "google">>}}
      \cup {[kind |-> "scan", pages |-> n] : n \in 0..4}
      \cup {[kind |-> "broken", message |-> m] :
                m \in {"Failed to open stream",
                       "cannot open broken document"}}

\* extract_pdf_text: the text layer, else the OCR output, else, when
\* anything raised, the error message as the text
extract_pdf_text(document) ==
    CASE document.kind = "text" -> document.text
      [] document.kind = "scan" -> PageHeaders(document.pages)
      [] document.kind = "broken" ->
            <<"Error extracting PDF text: ", document.message>>

InitAnalyze ==
    /\ request \in
           {[NoRequest EXCEPT
                 !.filename = f, !.document = d, !.role_type = r] :
                f \in {"resume.pdf", "resume.docx", "None"},
                d \in Documents,
                r \in {"software_engineer", "qa"}}
    /\ mock_mode = TRUE
    /\ heap = <<>>
    /\ cache = <<>>
    /\ calls = 0
    /\ last = NoCall
    /\ origin = <<>>
    /\ fast_seen = <<>>
    /\ probe = NoProbe
    /\ NoBatch
    /\ detection = NoDetection

\* analyze_candidate
AnalyzeCandidate ==
    /\ request.status = 0
    /\ IF request.filename = "None"
       THEN \* resume.filename.lower() raises AttributeError, which the
            \* last except clause turns into a 500
            /\ request' = [request EXCEPT
                              !.status = 500, !.detail = "Analysis failed"]
            /\ UNCHANGED <<heap, cache, calls, origin>>
       ELSE IF request.filename # "resume.pdf"
       THEN /\ request' =
                   [request EXCEPT
                       !.status = 400,
                       !.detail = "Only PDF files are supported"]
            /\ UNCHANGED <<heap, cache, calls, origin>>
       ELSE \E resume_text \in {extract_pdf_text(request.document)} :
              IF resume_text = <<>> \/ StrippedLen(resume_text) < 50
              THEN /\ request' =
                          [request EXCEPT
                              !.status = 400,
                              !.detail =
                                  "Could not extract meaningful text from PDF",
                              !.resume_text = <<resume_text>>]
                   /\ UNCHANGED <<heap, cache, calls, origin>>
              ELSE \E f \in {evaluate_candidate_fast(heap, cache,
                                 resume_text, request.role_type,
                                 calls + 1)} :
                     /\ heap' = f.heap
                     /\ cache' = f.cache
                     /\ calls' = calls + 1
                     /\ origin' =
                            Append(origin,
                                [role |-> request.role_type,
                                 adjusted |-> FALSE,
                                 prefix |-> PrefixOf(resume_text, 500)])
                     /\ request' =
                            [request EXCEPT
                                !.status = 200,
                                !.resume_text = <<resume_text>>,
                                !.fast_evaluation = <<f.heap[f.ref]>>]
    /\ UNCHANGED <<mock_mode, last, fast_seen, probe>>
    /\ UNCHANGED batch_vars
    /\ UNCHANGED detect_vars

NextAnalyze == AnalyzeCandidate

SpecAnalyze == InitAnalyze /\ [][NextAnalyze]_vars

(***************************************************************************)
(* The detectors of EliteTalentDetector on their own: each of the five     *)
(* detection functions applied to one text (and, for the skills, one       *)
(* role).                                                                  *)
(***************************************************************************)
MaxDetectLines == 3

\* the lines of the texts given to the detectors
DetectLines ==
    {"stanford", "washington", "degree", "google", "goldman", "years10",
     "years7", "years3", "engineer", "skills", "python_lower", "lead",
     "patent", "award", "built", "techlead"}

DetectTexts == SeqsUpTo(DetectLines, MaxDetectLines)

\* the roles given to detect_skills_match
DetectRoles == {"software_engineer", "data_scientist"}

InitDetect ==
    /\ detection \in
           {[NoDetection EXCEPT !.candidate_text = t, !.role = r] :
                t \in DetectTexts, r \in DetectRoles}
    /\ mock_mode = TRUE
    /\ heap = <<>>
    /\ cache = <<>>
    /\ calls = 0
    /\ last = NoCall
    /\ origin = <<>>
    /\ fast_seen = <<>>
    /\ probe = NoProbe
    /\ NoBatch
    /\ request = NoRequest

\* the five detection functions applied to the text
Detect ==
    /\ ~detection.done
    /\ detection' =
           [detection EXCEPT
               !.done = TRUE,
               !.education =
                   detect_education_signals(detection.candidate_text),
               !.experience =
                   detect_experience_signals(detection.candidate_text),
               !.skills =
                   detect_skills_match(detection.candidate_text,
                       detection.role),
               !.achievements =
                   detect_achievement_signals(detection.candidate_text),
               !.leadership =
                   detect_leadership_signals(detection.candidate_text)]
    /\ UNCHANGED engine_vars
    /\ UNCHANGED probe
    /\ UNCHANGED batch_vars
    /\ UNCHANGED analyze_vars

NextDetect == Detect

SpecDetect == InitDetect /\ [][NextDetect]_vars

(***************************************************************************)
(* Properties.                                                             *)
(***************************************************************************)
\* the fields of an EliteScore other than processing_time
Content(score) ==
    [overall |-> score.overall, education |-> score.education,
     experience |-> score.experience, skills |-> score.skills,
     achievements |-> score.achievements, confidence |-> score.confidence,
     hire_decision |-> score.hire_decision, strengths |-> score.strengths,
     concerns |-> score.concerns]

\* every score in [0, 10] and the confidence in [0, 95]
InRange(score) ==
    /\ \A x \in Range(Scores(score)) : 0 <= x /\ x <= 100
    /\ 0 <= score.confidence /\ score.confidence <= 950

\* C1: every EliteScore returned by evaluate_candidate_fast has its four
\* category scores and overall in [0, 10] and its confidence in [0, 95].
FastResultInRange ==
    last.op = "fast" => InRange(last.result[1])

\* C2: a fast call returns the same category and overall scores as the
\* earlier fast call with the same (text[:500], role), when no verification
\* call was made in between.
RepeatedFastSameScores ==
    (last.op = "fast" /\ last.prior # <<>>)
        => Scores(last.result[1]) = last.prior[1]

\* C2, witness: a fast call repeats the scores returned earlier for the
\* same 500-character prefix although its own text scores differently.
RepeatedFastWitness ==
    /\ last.op = "fast"
    /\ last.prior # <<>>
    /\ Scores(last.result[1]) = last.prior[1]
    /\ Scores(last.result[1])
         # Scores(FastScore(last.candidate_text, last.role, 0))

\* C3: batch_evaluate returns one result per candidate, in input order,
\* each with the content evaluate_candidate_fast gives for that text alone
\* on a fresh engine.
BatchEqualsAlone ==
    results # <<>> =>
        /\ Len(results[1]) = Len(candidates)
        /\ \A i \in DOMAIN candidates :
               Content(heap[results[1][i]])
                 = Content(FastScore(candidates[i][1], batch_role, 0))

\* the weighted overall of a text before rounding, in ten-thousandths
RawOverall(text, role) ==
    WeightedOverall(role_benchmarks(role),
        detect_education_signals(text).score,
        detect_experience_signals(text).score,
        detect_skills_match(text, role).score,
        detect_achievement_signals(text).score)

\* the order of the decision labels, worst first
Rank(decision) ==
    CASE decision = "NO_HIRE" -> 0
      [] decision = "MAYBE" -> 1
      [] decision = "STRONG_MAYBE" -> 2
      [] decision = "HIRE" -> 3

\* texts on every rung of the ladder, to compare a result with
LadderTexts ==
    {<<>>,
     <<"google", "patent">>,
     <<"google", "skills", "lead", "patent">>,
     <<"stanford", "google", "skills", "patent">>}

\* C4: the decision is HIRE from elite_threshold up, else STRONG_MAYBE from
\* hire_threshold up, else MAYBE from 6.0 up, else NO_HIRE, the boundary
\* itself getting the higher label; and for one role a larger overall
\* never has a worse label.
DecisionLadder ==
    probe.result # <<>> =>
        LET b == role_benchmarks(probe.role)
            o == RawOverall(probe.candidate_text, probe.role)
            d == probe.result[1].hire_decision
        IN  /\ d = "HIRE" <=> o >= b.elite_threshold * 100
            /\ d = "STRONG_MAYBE" <=>
                   (o >= b.hire_threshold * 100
                      /\ o < b.elite_threshold * 100)
            /\ d = "MAYBE" <=> (o >= 60000 /\ o < b.hire_threshold * 100)
            /\ d = "NO_HIRE" <=> o < 60000
            /\ \A t \in LadderTexts :
                   LET o2 == RawOverall(t, probe.role)
                       d2 == FastScore(t, probe.role, 0).hire_decision
                   IN  /\ o2 >= o => Rank(d2) >= Rank(d)
                       /\ o2 <= o => Rank(d2) <= Rank(d)

\* C4, witness: an overall exactly on the 6.0 boundary, labelled MAYBE.
DecisionBoundaryWitness ==
    /\ probe.result # <<>>
    /\ RawOverall(probe.candidate_text, probe.role) = 60000
    /\ probe.result[1].hire_decision = "MAYBE"

\* C5: the verification step is entered exactly when the fast result has
\* confidence < 70 or 6.5 <= overall <= 8.0; otherwise the fast result is
\* returned as it is and the backend is not called.
EscalationIffPredicate ==
    last.op = "verify" =>
        LET f == last.fast[1]
            borderline ==
                f.confidence < 700 \/ (f.overall >= 65 /\ f.overall <= 80)
        IN  /\ last.entered <=> borderline
            /\ ~borderline =>
                   (last.result[1] = f /\ ~last.contacted)

\* C5, witness: a fast result with overall exactly 8.0 and confidence of
\* at least 70 enters the verification step.
EscalationBoundaryWitness ==
    /\ last.op = "verify"
    /\ last.entered
    /\ last.fast[1].overall = 80
    /\ last.fast[1].confidence >= 700

\* C6: when the backend call fails, evaluate_with_llm_verification raises
\* nothing and returns the fast result with every field as it was.
BackendFailureKeepsFastResult ==
    LET malformed ==
            /\ last.response.kind = "content"
            /\ \A pattern \in {"score", "decision", "confidence",
                                "strengths", "concerns"} :
                   SearchResponse(pattern, last.response.content) = <<>>
    IN  (last.op = "verify" /\ last.contacted
           /\ (last.failed \/ malformed))
            => (~last.raised /\ last.result[1] = last.fast[1])

\* C6, witness: a verification whose backend call failed.
BackendFailureWitness ==
    /\ last.op = "verify"
    /\ last.entered
    /\ last.contacted
    /\ last.failed

\* C7: every EliteScore returned has at most 3 strengths and at most 2
\* concerns.
ListCaps ==
    last.op # "none" =>
        /\ Len(last.result[1].strengths) <= 3
        /\ Len(last.result[1].concerns) <= 2

\* C8: the entry stored in the cache is not changed by what happens to
\* the records returned to callers: once stored, an entry keeps its value.
CacheEntryIsolated ==
    [][\A k \in DOMAIN cache :
           k \in DOMAIN cache' /\ heap'[cache'[k]] = heap[cache[k]]]_vars

\* C9: a text with a "10 years of experience" phrase, no employer match
\* and a generic role keyword has experience 6.0.
YearsBonusOnGenericFloor ==
    (/\ probe.result # <<>>
     /\ \E i \in DOMAIN Findall("years", probe.candidate_text) :
            Findall("years", probe.candidate_text)[i] = 10
     /\ \A i \in DOMAIN CompanyTiers :
            ~Search("company_" \o CompanyTiers[i], probe.candidate_text)
     /\ Search("role_keyword", probe.candidate_text))
        => probe.result[1].experience = 60

\* overall agrees, to within one unit of its decimal, with the weighted
\* sum of the record's own category scores (in thousandths)
Derivable(score, b) ==
    Abs(score.overall * 100
          - (score.education * b.education_weight
               + score.experience * b.experience_weight
               + score.skills * b.skills_weight
               + score.achievements * b.achievements_weight)) < 100

VerifiedResultInRange ==
    last.op = "verify" =>
        /\ 0 <= last.result[1].overall /\ last.result[1].overall <= 100
        /\ 0 <= last.result[1].confidence
        /\ last.result[1].confidence <= 1000

\* C12: in mock mode, evaluate_with_llm_verification called again with the
\* same text and role returns the same strengths, concerns, overall,
\* decision and confidence as the call before.
MockRepeatable ==
    [][(/\ mock_mode
        /\ last.op = "verify"
        /\ last'.op = "verify"
        /\ last'.candidate_text = last.candidate_text
        /\ last'.role = last.role)
          => Content(last'.result[1]) = Content(last.result[1])]_vars

\* C13: in mock mode the verification step contacts no backend and does
\* not fail; it appends the fixed note to strengths exactly when overall
\* >= 8.0 and to concerns exactly when overall <= 6.0, and changes nothing
\* else.
MockRefinement ==
    (mock_mode /\ last.op = "verify" /\ last.entered) =>
        LET f == last.fast[1]
            r == last.result[1]
        IN  /\ ~last.contacted /\ ~last.failed /\ ~last.raised
            /\ r.strengths =
                   IF f.overall >= 80
                   THEN Append(f.strengths, "Mock: Strong overall profile")
                   ELSE f.strengths
            /\ r.concerns =
                   IF f.overall <= 60
                   THEN Append(f.concerns,
                            "Mock: Needs improvement in key areas")
                   ELSE f.concerns
            /\ Scores(r) = Scores(f)
            /\ r.hire_decision = f.hire_decision
            /\ r.confidence = f.confidence

\* C13, witness: a mock verification of a fast result with overall exactly
\* 8.0, which gets the strengths note and no concerns note.
MockRefinementWitness ==
    /\ mock_mode
    /\ last.op = "verify"
    /\ last.entered
    /\ last.fast[1].overall = 80
    /\ Len(last.result[1].strengths) = Len(last.fast[1].strengths) + 1
    /\ last.result[1].concerns = last.fast[1].concerns

\* C14: a backend response changes only those of overall, hire_decision,
\* confidence, strengths and concerns whose pattern it contains, and never
\* the four category scores.
PartialUpdate ==
    (last.op = "verify" /\ last.contacted) =>
        LET f == last.fast[1]
            r == last.result[1]
            found(pattern) ==
                /\ last.response.kind = "content"
                /\ SearchResponse(pattern, last.response.content) # <<>>
        IN  /\ ~found("score") => r.overall = f.overall
            /\ ~found("decision") => r.hire_decision = f.hire_decision
            /\ ~found("confidence") => r.confidence = f.confidence
            /\ ~found("strengths") => r.strengths = f.strengths
            /\ ~found("concerns") => r.concerns = f.concerns
            /\ r.education = f.education
            /\ r.experience = f.experience
            /\ r.skills = f.skills
            /\ r.achievements = f.achievements

\* C14, witness: a response with a score and nothing else has changed
\* overall and left decision, confidence, strengths and concerns alone.
PartialUpdateWitness ==
    /\ last.op = "verify"
    /\ last.contacted
    /\ last.response.content = <<"score_8_0">>
    /\ last.result[1].overall = 80
    /\ last.fast[1].overall # 80
    /\ last.result[1].confidence = last.fast[1].confidence
    /\ last.result[1].hire_decision = last.fast[1].hire_decision

\* C15: when batch workers evaluate candidates with the same fingerprint
\* concurrently, all of them return the same category and overall scores
\* and the cache ends with an entry that has these scores.
SameFingerprintSameScores ==
    results # <<>> =>
        \A i, j \in DOMAIN candidates :
            PrefixOf(candidates[i][1], 500) = PrefixOf(candidates[j][1], 500)
                => /\ Scores(heap[results[1][i]])
                        = Scores(heap[results[1][j]])
                   /\ Scores(heap[cache[_get_cache_key(candidates[i][1],
                                                       batch_role)]])
                        = Scores(heap[results[1][i]])

\* C16: when the evaluation of one candidate of a batch fails, the results
\* of all the other candidates are still returned to the caller.
BatchFailureIsolated ==
    (results # <<>> \/ last.op = "batch") =>
        \A i \in DOMAIN candidates :
            worker[i].pc = "done"
                => (results # <<>> /\ results[1][i] = worker[i].ref)

UnknownRoleIsDefault ==
    (probe.result # <<>> /\ probe.role \notin KnownRoles) =>
        Content(probe.result[1])
          = Content(FastScore(probe.candidate_text, "software_engineer", 0))

\* C18, witness: an unknown role evaluated on a text with skills of the
\* software engineer vocabulary and a non-zero overall.
UnknownRoleWitness ==
    /\ probe.result # <<>>
    /\ probe.role \notin KnownRoles
    /\ probe.result[1].skills > 0
    /\ probe.result[1].achievements > 0
    /\ probe.result[1].overall > 0

\* C19: the text "Stanford University, B.S. Computer Science. Google,
\* Software Engineer, 10 years of experience. Skills: Python, Kubernetes,
\* system design. Patent holder, published research." for role
\* "software_engineer" gets education 9.5, experience 10.0, skills > 0,
\* achievements > 0 and the decision HIRE.
EndToEndScenario ==
    (/\ last.op = "fast"
     /\ last.candidate_text = <<"stanford", "google", "skills", "patent">>
     /\ last.role = "software_engineer")
        => /\ last.result[1].education = 95
           /\ last.result[1].experience = 100
           /\ last.result[1].skills > 0
           /\ last.result[1].achievements > 0
           /\ last.result[1].hire_decision = "HIRE"

\* C19, witness: the scenario text has been evaluated and is a HIRE.
EndToEndWitness ==
    /\ last.op = "fast"
    /\ last.candidate_text = <<"stanford", "google", "skills", "patent">>
    /\ last.role = "software_engineer"
    /\ last.result[1].overall = 87
    /\ last.result[1].hire_decision = "HIRE"

\* C20: when text extraction fails or yields fewer than 50 characters,
\* the /analyze handler does not score anything: it answers with an error
\* and no evaluation.
ExtractionFailureNotScored ==
    (/\ request.status # 0
     /\ request.filename = "resume.pdf"
     /\ \/ request.document.kind = "broken"
        \/ StrippedLen(extract_pdf_text(request.document)) < 50)
        => (request.fast_evaluation = <<>> /\ request.status # 200)

\* the tiers of a table with a match in the text, by position
MatchingTiers(prefix, tiers, text) ==
    {i \in DOMAIN tiers : Search(prefix \o tiers[i], text)}

\* C21: the education score is the largest score of the institution tiers
\* that match the text, however many tiers or institutions match; with no
\* tier but a generic degree keyword it is exactly 5.0 with the single
\* label "General degree"; otherwise it is 0.
EducationIsMaxTier ==
    detection.done =>
        LET text == detection.candidate_text
            matching == MatchingTiers("edu_", UniversityTiers, text)
            scores == {UniversityScore(UniversityTiers[i]) : i \in matching}
        IN  IF matching # {}
            THEN /\ detection.education.score \in scores
                 /\ \A x \in scores : detection.education.score >= x
            ELSE IF Search("degree_keyword", text)
            THEN detection.education
                   = [score |-> 500, details |-> <<"General degree">>]
            ELSE detection.education.score = 0

\* three tiers match (Stanford, University of Washington, Washington) and
\* the score is that of the best one
EducationSeveralTiersWitness ==
    /\ detection.done
    /\ Cardinality(MatchingTiers("edu_", UniversityTiers,
                       detection.candidate_text)) = 3
    /\ Search("degree_keyword", detection.candidate_text)
    /\ detection.education.score = 950

\* C22: when an employer tier matches, the experience score is
\* min(10, M + B): M the largest score of the matching tiers, B the bonus
\* of the largest N of the "N years of experience" phrases (1.0 from 10,
\* 0.5 from 5, else 0).
ExperienceIsMaxPlusBonus ==
    detection.done =>
        LET text == detection.candidate_text
            matching == MatchingTiers("company_", CompanyTiers, text)
            scores == {CompanyScore(CompanyTiers[i]) : i \in matching}
            years == Range(Findall("years", text))
            B == IF \E n \in years : n >= 10 THEN 100
                 ELSE IF \E n \in years : n >= 5 THEN 50
                 ELSE 0
        IN  matching # {} =>
                \E M \in scores :
                    /\ \A x \in scores : M >= x
                    /\ detection.experience.score = Min(1000, M + B)

\* a small N is followed by a larger one, and the larger one counts
ExperienceLargestYearsWitness ==
    /\ detection.done
    /\ detection.candidate_text = <<"goldman", "years3", "years7">>
    /\ detection.experience.score = 880

\* a matched skill term without its letter case
Lower(term) ==
    CASE term = "Python" -> "python"
      [] term = "Kubernetes" -> "kubernetes"
      [] term = "Architecture" -> "architecture"
      [] OTHER -> term

\* the number of distinct terms among the matches of one skill bucket
DistinctTerms(matches) == Cardinality({Lower(m) : m \in Range(matches)})

\* C23: the skills score is min(10, min(1.5c, 4.0) + min(2.0a, 3.5)
\* + min(1.0l, 2.5)) with c, a, l the numbers of distinct matched terms of
\* the role's core, advanced and leadership vocabularies, a term written
\* in another letter case being the same term.
SkillsCountDistinctTerms ==
    detection.done =>
        LET text == detection.candidate_text
            r == IF detection.role \in KnownRoles THEN detection.role
                 ELSE "software_engineer"
            c == DistinctTerms(Findall(r \o ".core", text))
            a == DistinctTerms(Findall(r \o ".advanced", text))
            l == DistinctTerms(Findall(r \o ".leadership", text))
        IN  detection.skills.score
              = Min(1000, Min(150 * c, 400) + Min(200 * a, 350)
                            + Min(100 * l, 250))

\* C24: the achievements score is min(10, sum over the three tiers of
\* base score * weight * min(match count, 3)).
AchievementsCappedSum ==
    detection.done =>
        LET text == detection.candidate_text
            part(level) ==
                AchievementWeighted(level)
                  * Min(Len(Findall("achievement_" \o level, text)), 3)
        IN  detection.achievements.score
              = Min(1000, part("exceptional") + part("strong")
                            + part("moderate"))

\* four mentions of the moderate tier count as three (3 * 2.4), next to
\* one mention of the strong tier (5.25): 12.45, clamped to 10
AchievementsFourthMentionWitness ==
    /\ detection.done
    /\ Len(Findall("achievement_moderate", detection.candidate_text)) = 4
    /\ Len(Findall("achievement_strong", detection.candidate_text)) = 1
    /\ Findall("achievement_exceptional", detection.candidate_text) = <<>>
    /\ detection.achievements.score = 1000

\* the results of the five detectors
DetectorResults ==
    {detection.education, detection.experience, detection.skills,
     detection.achievements, detection.leadership}

\* C27: no detector returns a non-zero score together with an empty match
\* list.
NoScoreWithoutMatchList ==
    detection.done => \A d \in DetectorResults : d.details = <<>> => d.score = 0

\* C27, amended: a text in which no pattern of a category matches gets
\* score 0 and an empty match list from that category's detector; the
\* education, skills, achievements and leadership detectors never return
\* a non-zero score with an empty list, and the experience detector does
\* so only for a text with no employer and no generic role keyword, the
\* score being the years bonus alone.
NoScoreWithoutMatch ==
    detection.done =>
        LET text == detection.candidate_text
            r == IF detection.role \in KnownRoles THEN detection.role
                 ELSE "software_engineer"
            years == Range(Findall("years", text))
            none == [score |-> 0, details |-> <<>>]
        IN  /\ \A d \in DetectorResults \ {detection.experience} :
                   d.details = <<>> => d.score = 0
            /\ detection.experience.details = <<>> =>
                   /\ MatchingTiers("company_", CompanyTiers, text) = {}
                   /\ ~Search("role_keyword", text)
                   /\ detection.experience.score
                        = (IF \E n \in years : n >= 10 THEN 100
                           ELSE IF \E n \in years : n >= 5 THEN 50
                           ELSE 0)
            /\ (/\ MatchingTiers("edu_", UniversityTiers, text) = {}
                /\ ~Search("degree_keyword", text))
                   => detection.education = none
            /\ (/\ MatchingTiers("company_", CompanyTiers, text) = {}
                /\ ~Search("role_keyword", text)
                /\ years = {})
                   => detection.experience = none
            /\ (/\ Findall(r \o ".core", text) = <<>>
                /\ Findall(r \o ".advanced", text) = <<>>
                /\ Findall(r \o ".leadership", text) = <<>>)
                   => detection.skills = none
            /\ MatchingTiers("achievement_", AchievementLevels, text) = {}
                   => detection.achievements = none
            /\ MatchingTiers("leadership_", LeadershipLevels, text) = {}
                   => detection.leadership = none

\* a years phrase and nothing else of the category: the bonus alone, with
\* an empty list, next to detectors that found nothing
YearsOnlyWitness ==
    /\ detection.done
    /\ detection.candidate_text = <<"years10", "techlead">>
    /\ detection.experience = [score |-> 100, details |-> <<>>]
    /\ detection.education = [score |-> 0, details |-> <<>>]
    /\ detection.leadership.score = 390

\* C25: the confidence of a fast result is min(95.0, 60.0 + len(text)/100
\* + 5 * total_matches) rounded to one decimal, total_matches counting
\* every matched literal, repeated ones included, of the education,
\* experience and skills detections.
ConfidenceCountsEveryMatch ==
    probe.result # <<>> =>
        LET text == probe.candidate_text
            r == IF probe.role \in KnownRoles THEN probe.role
                 ELSE "software_engineer"
            total_matches ==
                Len(detect_education_signals(text).details)
                  + Len(detect_experience_signals(text).details)
                  + Len(Findall(r \o ".core", text))
                  + Len(Findall(r \o ".advanced", text))
                  + Len(Findall(r \o ".leadership", text))
        IN  probe.result[1].confidence
              = RoundHalfEven(
                    Min(9500, 6000 + TextLen(text) + 500 * total_matches),
                    10)

\* the ways to list up to three of the matched skills
SkillArrangements(details) ==
    LET n == Min(3, Cardinality(Range(details)))
    IN  {a \in [1..n -> Range(details)] :
            \A i, j \in 1..n : a[i] = a[j] => i = j}

\* C26: strengths and concerns come from education, experience, skills,
\* achievements in that order; a category gives a strength from 8.0 up
\* (7.0 for achievements), a concern below 6.0 (4.0 for achievements) and
\* nothing in between; the result holds the first 3 strengths and the
\* first 2 concerns.
StrengthsAndConcernsByCutoffs ==
    probe.result # <<>> =>
        LET text == probe.candidate_text
            r == probe.result[1]
            one(cond, s) == IF cond THEN <<s>> ELSE <<>>
            concerns ==
                one(r.education < 60,
                    "Education background below expectations")
                \o one(r.experience < 60, "Limited relevant experience")
                \o one(r.skills < 60, "Missing key technical skills")
                \o one(r.achievements < 40, "Limited demonstrated impact")
            strengths(skill_items) ==
                one(r.education >= 80,
                    "Elite education: "
                      \o Join(Take(detect_education_signals(text).details,
                                  2)))
                \o one(r.experience >= 80,
                       "Top-tier experience: "
                         \o Join(Take(
                                detect_experience_signals(text).details, 2)))
                \o one(r.skills >= 80,
                       "Strong technical skills: " \o Join(skill_items))
                \o one(r.achievements >= 70,
                       "Notable achievements: "
                         \o Join(Take(
                                detect_achievement_signals(text).details,
                                2)))
        IN  /\ r.concerns = Take(concerns, 2)
            /\ \E a \in SkillArrangements(
                           detect_skills_match(text, probe.role).details) :
                   r.strengths = Take(strengths(a), 3)

\* all four categories give a strength and the fourth is dropped
FourStrengthsWitness ==
    /\ probe.result # <<>>
    /\ probe.result[1].education >= 80
    /\ probe.result[1].experience >= 80
    /\ probe.result[1].skills >= 80
    /\ probe.result[1].achievements >= 70
    /\ Len(probe.result[1].strengths) = 3
    /\ probe.result[1].concerns = <<>>

\* C28: the hire decision agrees with the ladder applied to the overall
\* field of the record: HIRE from elite_threshold up, at least
\* STRONG_MAYBE from hire_threshold up, at least MAYBE from 6.0 up.
DecisionAgreesWithExposedOverall ==
    probe.result # <<>> =>
        LET r == probe.result[1]
            b == role_benchmarks(probe.role)
        IN  /\ r.overall * 10 >= b.elite_threshold
                   => r.hire_decision = "HIRE"
            /\ r.overall * 10 >= b.hire_threshold
                   => Rank(r.hire_decision) >= Rank("STRONG_MAYBE")
            /\ r.overall >= 60 => Rank(r.hire_decision) >= Rank("MAYBE")

\* C29: a call is served from the cache only by an entry that was computed
\* for the same first 500 characters of text and the same role.
CacheHitSamePrefixAndRole ==
    (last.op \in {"fast", "verify"} /\ last.hit) =>
        /\ origin[last.ref].role = last.role
        /\ origin[last.ref].prefix = PrefixOf(last.candidate_text, 500)

\* C30: the category and overall scores a fast call returns are those of
\* its own text and role, whatever was evaluated on the engine before
\* (records whose overall a backend response has overwritten set aside).
ScoresOfOwnText ==
    (last.op = "fast" /\ ~origin[last.ref].adjusted) =>
        Scores(last.result[1])
          = Scores(FastScore(last.candidate_text, last.role, 0))

====
